---------------------------- MODULE Spec2Model ----------------------------
(***************************************************************************)
(* The builtin-echo client of examples/c/builtin_echo.c: main drives one   *)
(* task through the Teaclave frontend (login, user_register, login,        *)
(* connect, set_credential, register_function, create_task, invoke_task,   *)
(* get_task_result, close).  The client is modelled statement by statement *)
(* from the C source.  The platform behind the SDK calls is not part of    *)
(* the source file; it is modelled from the specification's contracts.     *)
(*                                                                         *)
(* A C string is a sequence of pieces.  A piece is a TLA+ string; the      *)
(* characters the client scans (responses, identifiers) are pieces of      *)
(* length 1, the literal parts of the request templates are longer pieces. *)
(***************************************************************************)
EXTENDS Integers, Sequences, FiniteSets, TLC

\* ------------------------------------------------------------- constants

\* #define BUFFER_SIZE 4086
BUFFER_SIZE == 4086

\* the field width of "%45s" in the function_id scan
FunctionIdWidth == 45

\* the field width of "%41s" in the task_id scan
TaskIdWidth == 41

\* The platform issues identifiers whose length is within MaxIdSlack of the
\* client's field widths (shorter, equal, longer).
MaxIdSlack == 1

user_id == "test_id"
user_password == "test_password"
admin_user_id == "admin"
admin_user_password == "teaclave"

\* ----------------------------------------------------------- C strings

Min(a, b) == IF a < b THEN a ELSE b

IsSpace(c) == c \in {" ", "\t", "\n", "\r"}

\* strlen: the number of characters of a string of pieces
strlen(s) ==
    LET sum[i \in 0..Len(s)] == IF i = 0 THEN 0 ELSE sum[i - 1] + Len(s[i])
    IN  sum[Len(s)]

HasPrefix(s, p) == Len(p) <= Len(s) /\ SubSeq(s, 1, Len(p)) = p

\* the first index >= i of s that holds no white space (Len(s)+1 at the end)
SkipSpace(s, i) ==
    CHOOSE j \in i..(Len(s) + 1) :
        /\ (j = Len(s) + 1 \/ ~IsSpace(s[j]))
        /\ \A k \in i..(j - 1) : IsSpace(s[k])

\* the end (exclusive) of the "%<width>s" field that starts at i: the field
\* stops at white space, at the end of the input, or after width characters
FieldEnd(s, i, width) ==
    CHOOSE j \in i..Min(i + width, Len(s) + 1) :
        /\ (j = Len(s) + 1 \/ j = i + width \/ IsSpace(s[j]))
        /\ \A k \in i..(j - 1) : ~IsSpace(s[k])

\* sscanf(buf, "<literal>%<width>s", dest): the literal must match the start
\* of buf; the field is the following run of at most width non-space
\* characters.  When nothing is converted dest keeps its old contents.
sscanf(buf, literal, width, dest) ==
    IF ~HasPrefix(buf, literal) THEN dest
    ELSE LET i == SkipSpace(buf, Len(literal) + 1)
             j == FieldEnd(buf, i, width)
         IN  IF j = i THEN dest ELSE SubSeq(buf, i, j - 1)

\* the pieces of fmt with every "%s" replaced by the characters of arg
Expand(fmt, arg) ==
    LET out[i \in 0..Len(fmt)] ==
            IF i = 0 THEN << >>
            ELSE out[i - 1] \o (IF fmt[i] = "%s" THEN arg ELSE << fmt[i] >>)
    IN  out[Len(fmt)]

\* the longest prefix of s (in whole pieces) of at most n characters
Truncate(s, n) ==
    LET upto[i \in 0..Len(s)] == IF i = 0 THEN 0 ELSE upto[i - 1] + Len(s[i])
    IN  SubSeq(s, 1, CHOOSE i \in 0..Len(s) :
                         /\ upto[i] <= n
                         /\ (i = Len(s) \/ upto[i + 1] > n))

\* snprintf(dest, size, fmt, arg): at most size - 1 characters are stored
snprintf(size, fmt, arg) == Truncate(Expand(fmt, arg), size - 1)

\* ------------------------------------------------------ request templates

\* QUOTE({...}) of the register_function request
register_function_request_serialized ==
    << "{ \"request\" : \"register_function\", \"name\" : \"builtin-echo\", \"description\" : \"Native Echo Function\", \"executor_type\" : \"builtin\", \"public\" : true, \"payload\" : [], \"arguments\" : [{\"key\": \"",
       "message",
       "\", \"default_value\": \"",
       "",
       "\", \"allow_overwrite\": ",
       "true",
       "}], \"inputs\" : [], \"outputs\" : [], \"user_allowlist\": [], \"usage_quota\": -1 }" >>

\* the create_task request as it would be with another message argument
create_task_request_other_message ==
    << "{ \"request\" : \"create_task\", \"function_id\" : \"",
       "%s",
       "\"",
       ", \"function_arguments\" : \"{\\\"",
       "message",
       "\\\": \\\"",
       "Hello, World!",
       "\\\"}\", \"executor\" : \"builtin\", \"inputs_ownership\" : [], \"outputs_ownership\" : [] }" >>

\* QUOTE({...}) of the create_task request, "%s" being the function id
create_task_request_serialized ==
    << "{ \"request\" : \"create_task\", \"function_id\" : \"",
       "%s",
       "\"",
       ", \"function_arguments\" : \"{\\\"",
       "message",
       "\\\": \\\"",
       "Hello, Teaclave!",
       "\\\"}\", \"executor\" : \"builtin\", \"inputs_ownership\" : [], \"outputs_ownership\" : [] }" >>

\* the literal of the format "{\"function_id\":\"%45s"
FunctionIdFormat ==
    << "{", "\"", "f", "u", "n", "c", "t", "i", "o", "n", "_", "i", "d",
       "\"", ":", "\"" >>

\* the literal of the format "{\"task_id\":\"%41s"
TaskIdFormat ==
    << "{", "\"", "t", "a", "s", "k", "_", "i", "d", "\"", ":", "\"" >>


\* ------------------------------------------------------------------ state

VARIABLES
    pc,                       \* the statement main executes next
    ret,                      \* int ret
    token,                    \* char token[BUFFER_SIZE]
    token_len,                \* size_t token_len
    frontend_client,          \* FrontendClient *frontend_client
    serialized_response,      \* char serialized_response[BUFFER_SIZE]
    serialized_response_len,  \* size_t serialized_response_len
    function_id,              \* char function_id[BUFFER_SIZE]
    serialized_request,       \* char serialized_request[BUFFER_SIZE]
    task_id,                  \* char task_id[BUFFER_SIZE]
    task_result,              \* char task_result[BUFFER_SIZE]
    task_result_len,          \* size_t task_result_len
    err,                      \* the diagnostics written to stderr, in order
    exit_status,              \* << >> while running, <<status>> once ended
    calls,                    \* the platform calls issued so far, in order
    users,                    \* platform: user id -> password
    connection,               \* platform: the channel behind the handle
    credential,               \* platform: the credential bound to the channel
    functions,                \* platform: function id -> argument spec
    tasks                     \* platform: task id -> state and result

client_vars ==
    << pc, ret, token, token_len, frontend_client, serialized_response,
       serialized_response_len, function_id, serialized_request, task_id,
       task_result, task_result_len, err, exit_status, calls >>

platform_vars == << users, connection, credential, functions, tasks >>

vars == << client_vars, platform_vars >>

\* ---------------------------------------------------------------- platform
\* The SDK calls and the service behind them, from the component contracts.
\* Every call returns 0 on success and 1 on any error; the error kind is the
\* platform's and is not visible in the return code.

NULL == "NULL"
Handle == "frontend_client#1"
\* what an object read before its initialisation may hold
Indeterminate == "indeterminate"
Garbage == "garbage"
\* what a size_t holds before its declaration initialises it (lines 109 and
\* 145); main never reads it in that state
IndeterminateLength == 0 - 1

NoCredential == << >>

TokenOf(uid) == "token:" \o uid

Filler(n) == [i \in 1..n |-> "0"]

NewFunctionId(n) ==
    << "f", "u", "n", "c", "t", "i", "o", "n", "-" >> \o Filler(n - 9)

NewTaskId(n) == << "t", "a", "s", "k", "-" >> \o Filler(n - 5)

IdLengths(width) == (width - MaxIdSlack)..(width + MaxIdSlack)

\* the serialized response {"<field>":"<id>"}
Response(field, id) ==
    << "{", "\"" >> \o field \o << "\"", ":", "\"" >> \o id \o << "\"", "}" >>

FunctionIdField == << "f", "u", "n", "c", "t", "i", "o", "n", "_", "i", "d" >>
TaskIdField == << "t", "a", "s", "k", "_", "i", "d" >>

Extend(f, k, v) == [x \in (DOMAIN f) \cup {k} |-> IF x = k THEN v ELSE f[x]]

\* login(user_id, password, token, &token_len)
login(uid, pw, len) ==
    { [res |-> "AuthError", ret |-> 1, token |-> "", len |-> len] }
    \cup
    { [res |-> "Ok", ret |-> 0, token |-> TokenOf(uid),
       len |-> Len(TokenOf(uid)) + 1] :
        x \in { u \in DOMAIN users :
                  u = uid /\ users[u] = pw /\ Len(TokenOf(uid)) + 1 <= len } }

\* user_register(admin_id, admin_token, new_user_id, new_password)
user_register(aid, tok, uid, pw) ==
    { [res |-> "AuthError", ret |-> 1, users |-> users] }
    \cup
    ( IF aid # admin_user_id \/ tok # TokenOf(aid) THEN {}
      ELSE IF uid \in DOMAIN users
      THEN { [res |-> "AlreadyExists", ret |-> 1, users |-> users] }
      ELSE { [res |-> "Ok", ret |-> 0, users |-> Extend(users, uid, pw)] } )

\* teaclave_connect_frontend_service(address, enclave_info, as_root_ca_cert)
teaclave_connect_frontend_service ==
    { [res |-> "ConnectionError", client |-> NULL, connection |-> connection],
      [res |-> "Ok", client |-> Handle, connection |-> "open"] }

\* teaclave_frontend_set_credential(client, user_id, token)
teaclave_frontend_set_credential(client, uid, tok) ==
    { [res |-> "AuthError", ret |-> 1, credential |-> credential] }
    \cup
    ( IF client = Handle /\ connection = "open" /\ tok = TokenOf(uid)
           /\ uid \in DOMAIN users
      THEN { [res |-> "Ok", ret |-> 0,
              credential |-> << [user_id |-> uid, token |-> tok] >>] }
      ELSE {} )

\* the argument spec a register_function request declares, << >> if malformed
ParseRegisterFunction(req) ==
    LET t == register_function_request_serialized
    IN  IF /\ Len(req) = 7
           /\ \A i \in {1, 3, 5, 7} : req[i] = t[i]
           /\ req[6] \in {"true", "false"}
        THEN << [key |-> req[2], default_value |-> req[4],
                 allow_overwrite |-> (req[6] = "true")] >>
        ELSE << >>

\* a call that writes its response to a buffer of *len characters: the
\* response and its terminator must fit, and *len becomes what was written
Deliver(okres, resp, len) ==
    IF strlen(resp) + 1 <= len
    THEN [res |-> okres, ret |-> 0, response |-> resp, len |-> strlen(resp) + 1]
    ELSE [res |-> "BufferTooSmall", ret |-> 1, response |-> << >>, len |-> len]

\* teaclave_register_function_serialized(client, request, response, &len)
teaclave_register_function_serialized(client, req, len) ==
    { [res |-> "RegistrationError", ret |-> 1, id |-> << >>,
       response |-> << >>, len |-> len, functions |-> functions] }
    \cup
    ( IF client = Handle /\ connection = "open" /\ credential # NoCredential
           /\ ParseRegisterFunction(req) # << >>
      THEN { [id |-> NewFunctionId(n),
              functions |-> Extend(functions, NewFunctionId(n),
                                   ParseRegisterFunction(req)[1])]
             @@ Deliver("Ok", Response(FunctionIdField, NewFunctionId(n)), len) :
               n \in IdLengths(FunctionIdWidth) }
      ELSE {} )


\* the fields of a create_task request, << >> if the request is malformed:
\* the function id is what stands between the opening quote and the next one
ParseCreateTask(req) ==
    LET t == create_task_request_serialized
        quotes == { i \in 2..Len(req) : req[i] = "\"" }
    IN  IF Len(req) < 2 \/ req[1] # t[1] \/ quotes = {} THEN << >>
        ELSE LET q == CHOOSE i \in quotes : \A j \in quotes : i <= j
                 rest == SubSeq(req, q + 1, Len(req))
             IN  IF /\ Len(rest) = 5
                    /\ rest[1] = t[4] /\ rest[3] = t[6] /\ rest[5] = t[8]
                 THEN << [function_id |-> SubSeq(req, 2, q - 1),
                          key |-> rest[2], value |-> rest[4]] >>
                 ELSE << >>

\* whether the arguments of a task pass the function's argument spec
ArgumentsAccepted(spec, key, value) ==
    /\ key = spec.key
    /\ (value = spec.default_value \/ spec.allow_overwrite)

\* teaclave_create_task_serialized(client, request, response, &len)
teaclave_create_task_serialized(client, req, len) ==
    { [res |-> "TaskCreationError", ret |-> 1, id |-> << >>,
       response |-> << >>, len |-> len, tasks |-> tasks] }
    \cup
    ( IF /\ client = Handle /\ connection = "open" /\ credential # NoCredential
         /\ ParseCreateTask(req) # << >>
         /\ ParseCreateTask(req)[1].function_id \in DOMAIN functions
         /\ ArgumentsAccepted(functions[ParseCreateTask(req)[1].function_id],
                              ParseCreateTask(req)[1].key,
                              ParseCreateTask(req)[1].value)
      THEN { [id |-> NewTaskId(n),
              tasks |-> Extend(tasks, NewTaskId(n),
                               [state |-> "CREATED",
                                function_id |-> ParseCreateTask(req)[1].function_id,
                                key |-> ParseCreateTask(req)[1].key,
                                value |-> ParseCreateTask(req)[1].value])]
             @@ Deliver("Ok", Response(TaskIdField, NewTaskId(n)), len) :
               n \in { m \in IdLengths(TaskIdWidth) : NewTaskId(m) \notin DOMAIN tasks } }
      ELSE {} )

\* teaclave_invoke_task(client, task_id)
teaclave_invoke_task(client, tid) ==
    { [res |-> "InvocationError", ret |-> 1, tasks |-> tasks] }
    \cup
    ( IF /\ client = Handle /\ connection = "open" /\ credential # NoCredential
         /\ tid \in DOMAIN tasks /\ tasks[tid].state = "CREATED"
      THEN { [res |-> "Ok", ret |-> 0,
              tasks |-> [tasks EXCEPT ![tid].state = "RUNNING"]] }
      ELSE {} )

\* the result payload of a finished task: the builtin echo function returns
\* the value of its message argument
EchoResult(task) == << task.value >>

\* teaclave_get_task_result(client, task_id, result, &len)
teaclave_get_task_result(client, tid, len) ==
    IF /\ client = Handle /\ connection = "open" /\ credential # NoCredential
       /\ tid \in DOMAIN tasks /\ tasks[tid].state = "FINISHED"
    THEN { Deliver("Ok", EchoResult(tasks[tid]), len) }
    ELSE IF tid \in DOMAIN tasks /\ tasks[tid].state = "FAILED"
    THEN { [res |-> "TaskError", ret |-> 1, response |-> << >>, len |-> len] }
    ELSE { [res |-> "ResultNotReady", ret |-> 1, response |-> << >>, len |-> len] }

\* teaclave_close_frontend_service(client): a live handle is released (the
\* release may report failure), a null handle is reported as a failure, and
\* any other pointer value is not a handle at all: the call may return
\* either code or crash the process
teaclave_close_frontend_service(client) ==
    IF client = Handle /\ connection = "open"
    THEN { [res |-> "Ok", ret |-> 0, connection |-> "closed"],
           [res |-> "CloseError", ret |-> 1, connection |-> "closed"] }
    ELSE IF client = NULL
    THEN { [res |-> "CloseError", ret |-> 1, connection |-> connection] }
    ELSE { [res |-> "Ok", ret |-> 0, connection |-> connection],
           [res |-> "CloseError", ret |-> 1, connection |-> connection],
           [res |-> "Crash", ret |-> 1, connection |-> connection] }

\* the platform finishes a running task, with a result or with a failure
TaskCompletes ==
    /\ \E tid \in DOMAIN tasks :
         /\ tasks[tid].state = "RUNNING"
         /\ \E s \in {"FINISHED", "FAILED"} :
              tasks' = [tasks EXCEPT ![tid].state = s]
    /\ UNCHANGED << client_vars, users, connection, credential, functions >>


\* ------------------------------------------------------------------ client

\* one issued platform call: the operation, the handle and argument passed,
\* the in/out length on entry, the platform's outcome and the id, token or
\* handle it issued
Call(op, client, arg, len, res, out) ==
    [op |-> op, client |-> client, arg |-> arg, len |-> len, res |-> res,
     out |-> out]

\* the client field of a call that takes no handle
NoClient == "none"

FailedLogin == "[-] Failed to login."
FailedRegister == "[-] Failed to register. Ignore."
FailedConnect == "[-] Failed to connect to the frontend service."
FailedSetCredential == "[-] Failed to set credential."
FailedRegisterFunction == "[-] Failed to register the function."
FailedCreateTask == "[-] Failed to create a task."
FailedInvoke == "[-] Failed to invoke the task."
FailedGetResult == "[-] Failed to get the task result."
FailedClose == "[-] Failed to close the frontend service client."

\* the state after construction: the locals of main as declared, and a
\* platform that knows the administrator and may already know the user
Init ==
    /\ pc = "login_admin"
    /\ ret = 0
    /\ token = ""
    /\ token_len = BUFFER_SIZE
    /\ frontend_client = Indeterminate
    /\ serialized_response = << >>
    /\ serialized_response_len = IndeterminateLength
    /\ function_id = << >>
    /\ serialized_request = << >>
    /\ task_id = << >>
    /\ task_result = << >>
    /\ task_result_len = IndeterminateLength
    /\ err = << >>
    /\ exit_status = << >>
    /\ calls = << >>
    /\ users \in { [u \in {admin_user_id} |-> admin_user_password] }
                 \cup { [u \in {admin_user_id, user_id} |->
                           IF u = admin_user_id THEN admin_user_password ELSE p] :
                        p \in {user_password, "other_password"} }
    /\ connection = "none"
    /\ credential = NoCredential
    /\ functions = << >>
    /\ tasks = << >>

\* ret = login(admin_user_id, admin_user_password, token, &token_len);
\* if (ret != 0) { fprintf(stderr, ...); goto bail; }
LoginAdmin ==
    /\ pc = "login_admin"
    /\ \E r \in login(admin_user_id, admin_user_password, token_len) :
         /\ ret' = r.ret
         /\ token' = IF r.ret = 0 THEN r.token ELSE token
         /\ token_len' = r.len
         /\ calls' = Append(calls, Call("login", NoClient, admin_user_id,
                                        token_len, r.res, r.token))
         /\ err' = IF r.ret # 0 THEN Append(err, FailedLogin) ELSE err
         /\ pc' = IF r.ret # 0 THEN "bail" ELSE "user_register"
    /\ UNCHANGED << frontend_client, serialized_response,
                    serialized_response_len, function_id, serialized_request,
                    task_id, task_result, task_result_len, exit_status,
                    platform_vars >>

\* UserRegister as it would be if a failed registration were fatal like
\* every other failure
UserRegister_FailureFatal ==
    /\ pc = "user_register"
    /\ \E r \in user_register(admin_user_id, token, user_id, user_password) :
         /\ ret' = r.ret
         /\ users' = r.users
         /\ calls' = Append(calls, Call("user_register", NoClient,
                                        << admin_user_id, token, user_id,
                                           user_password >>, 0, r.res, << >>))
         /\ err' = IF r.ret # 0 THEN Append(err, FailedRegister) ELSE err
         /\ pc' = IF r.ret # 0 THEN "bail" ELSE "login_user"
    /\ UNCHANGED << token, token_len, frontend_client, serialized_response,
                    serialized_response_len, function_id, serialized_request,
                    task_id, task_result, task_result_len, exit_status,
                    connection, credential, functions, tasks >>

\* ret = user_register(admin_user_id, token, user_id, user_password);
\* if (ret != 0) { fprintf(stderr, "[-] Failed to register. Ignore.\n"); }
UserRegister ==
    /\ pc = "user_register"
    /\ \E r \in user_register(admin_user_id, token, user_id, user_password) :
         /\ ret' = r.ret
         /\ users' = r.users
         /\ calls' = Append(calls, Call("user_register", NoClient,
                                        << admin_user_id, token, user_id,
                                           user_password >>, 0, r.res, << >>))
         /\ err' = IF r.ret # 0 THEN Append(err, FailedRegister) ELSE err
         /\ pc' = "login_user"
    /\ UNCHANGED << token, token_len, frontend_client, serialized_response,
                    serialized_response_len, function_id, serialized_request,
                    task_id, task_result, task_result_len, exit_status,
                    connection, credential, functions, tasks >>

\* LoginUser as it would be if a failed login of the user were reported and
\* ignored, leaving the administrator's token in the buffer
LoginUser_FailureIgnored ==
    /\ pc = "login_user"
    /\ \E r \in login(user_id, user_password, BUFFER_SIZE) :
         /\ ret' = r.ret
         /\ token' = IF r.ret = 0 THEN r.token ELSE token
         /\ token_len' = r.len
         /\ calls' = Append(calls, Call("login", NoClient, user_id, BUFFER_SIZE,
                                        r.res, r.token))
         /\ err' = IF r.ret # 0 THEN Append(err, FailedLogin) ELSE err
         /\ pc' = "connect"
    /\ UNCHANGED << frontend_client, serialized_response,
                    serialized_response_len, function_id, serialized_request,
                    task_id, task_result, task_result_len, exit_status,
                    platform_vars >>

\* token_len = BUFFER_SIZE;
\* ret = login(user_id, user_password, token, &token_len);
\* if (ret != 0) { fprintf(stderr, ...); goto bail; }
LoginUser ==
    /\ pc = "login_user"
    /\ \E r \in login(user_id, user_password, BUFFER_SIZE) :
         /\ ret' = r.ret
         /\ token' = IF r.ret = 0 THEN r.token ELSE token
         /\ token_len' = r.len
         /\ calls' = Append(calls, Call("login", NoClient, user_id, BUFFER_SIZE,
                                        r.res, r.token))
         /\ err' = IF r.ret # 0 THEN Append(err, FailedLogin) ELSE err
         /\ pc' = IF r.ret # 0 THEN "bail" ELSE "connect"
    /\ UNCHANGED << frontend_client, serialized_response,
                    serialized_response_len, function_id, serialized_request,
                    task_id, task_result, task_result_len, exit_status,
                    platform_vars >>

\* FrontendClient *frontend_client = teaclave_connect_frontend_service(...);
\* if (frontend_client == NULL) { fprintf(stderr, ...); ret = 1; goto bail; }
Connect ==
    /\ pc = "connect"
    /\ \E r \in teaclave_connect_frontend_service :
         /\ frontend_client' = r.client
         /\ connection' = r.connection
         /\ ret' = IF r.client = NULL THEN 1 ELSE ret
         /\ calls' = Append(calls, Call("connect", NoClient, "", 0, r.res,
                                        r.client))
         /\ err' = IF r.client = NULL THEN Append(err, FailedConnect) ELSE err
         /\ pc' = IF r.client = NULL THEN "bail" ELSE "set_credential"
    /\ UNCHANGED << token, token_len, serialized_response,
                    serialized_response_len, function_id, serialized_request,
                    task_id, task_result, task_result_len, exit_status,
                    users, credential, functions, tasks >>

\* SetCredential as it would be if its failure were reported and ignored
SetCredential_FailureIgnored ==
    /\ pc = "set_credential"
    /\ \E r \in teaclave_frontend_set_credential(frontend_client, user_id, token) :
         /\ ret' = r.ret
         /\ credential' = r.credential
         /\ calls' = Append(calls, Call("set_credential", frontend_client,
                                        << user_id, token >>, 0, r.res, << >>))
         /\ err' = IF r.ret # 0 THEN Append(err, FailedSetCredential) ELSE err
         /\ pc' = "register_function"
    /\ UNCHANGED << token, token_len, frontend_client, serialized_response,
                    serialized_response_len, function_id, serialized_request,
                    task_id, task_result, task_result_len, exit_status,
                    users, connection, functions, tasks >>

\* ret = teaclave_frontend_set_credential(frontend_client, user_id, token);
\* if (ret != 0) { fprintf(stderr, ...); goto bail; }
SetCredential ==
    /\ pc = "set_credential"
    /\ \E r \in teaclave_frontend_set_credential(frontend_client, user_id, token) :
         /\ ret' = r.ret
         /\ credential' = r.credential
         /\ calls' = Append(calls, Call("set_credential", frontend_client,
                                        << user_id, token >>, 0, r.res, << >>))
         /\ err' = IF r.ret # 0 THEN Append(err, FailedSetCredential) ELSE err
         /\ pc' = IF r.ret # 0 THEN "bail" ELSE "register_function"
    /\ UNCHANGED << token, token_len, frontend_client, serialized_response,
                    serialized_response_len, function_id, serialized_request,
                    task_id, task_result, task_result_len, exit_status,
                    users, connection, functions, tasks >>


\* size_t serialized_response_len = BUFFER_SIZE;
\* ret = teaclave_register_function_serialized(frontend_client,
\*     register_function_request_serialized, serialized_response,
\*     &serialized_response_len);
\* if (ret != 0) { fprintf(stderr, ...); goto bail; }
\* sscanf(serialized_response, "{\"function_id\":\"%45s", function_id);
RegisterFunction ==
    /\ pc = "register_function"
    /\ \E r \in teaclave_register_function_serialized(
                   frontend_client, register_function_request_serialized,
                   BUFFER_SIZE) :
         /\ ret' = r.ret
         /\ functions' = r.functions
         /\ serialized_response' =
                IF r.ret = 0 THEN r.response ELSE serialized_response
         /\ serialized_response_len' = r.len
         /\ function_id' =
                IF r.ret = 0
                THEN sscanf(r.response, FunctionIdFormat, FunctionIdWidth,
                            function_id)
                ELSE function_id
         /\ calls' = Append(calls, Call("register_function", frontend_client,
                                        register_function_request_serialized,
                                        BUFFER_SIZE, r.res, r.id))
         /\ err' = IF r.ret # 0 THEN Append(err, FailedRegisterFunction) ELSE err
         /\ pc' = IF r.ret # 0 THEN "bail" ELSE "create_task"
    /\ UNCHANGED << token, token_len, frontend_client, serialized_request,
                    task_id, task_result, task_result_len, exit_status,
                    users, connection, credential, tasks >>

\* the request main builds for create_task:
\* snprintf(serialized_request, BUFFER_SIZE, create_task_request_serialized,
\*          function_id);
CreateTaskRequest(fid) ==
    snprintf(BUFFER_SIZE, create_task_request_serialized, fid)

\* snprintf(...); memset(serialized_response, 0, BUFFER_SIZE);
\* ret = teaclave_create_task_serialized(frontend_client, serialized_request,
\*     serialized_response, &serialized_response_len);
\* if (ret != 0) { fprintf(stderr, ...); goto bail; }
\* sscanf(serialized_response, "{\"task_id\":\"%41s", task_id);
CreateTask ==
    /\ pc = "create_task"
    /\ \E request \in { CreateTaskRequest(function_id) } :
       \E r \in teaclave_create_task_serialized(
                   frontend_client, request, serialized_response_len) :
         /\ serialized_request' = request
         /\ ret' = r.ret
         /\ tasks' = r.tasks
         /\ serialized_response' = IF r.ret = 0 THEN r.response ELSE << >>
         /\ serialized_response_len' = r.len
         /\ task_id' =
                IF r.ret = 0
                THEN sscanf(r.response, TaskIdFormat, TaskIdWidth, task_id)
                ELSE task_id
         /\ calls' = Append(calls, Call("create_task", frontend_client,
                                        request,
                                        serialized_response_len, r.res, r.id))
         /\ err' = IF r.ret # 0 THEN Append(err, FailedCreateTask) ELSE err
         /\ pc' = IF r.ret # 0 THEN "bail" ELSE "invoke_task"
    /\ UNCHANGED << token, token_len, frontend_client, function_id,
                    task_result, task_result_len, exit_status,
                    users, connection, credential, functions >>

\* ret = teaclave_invoke_task(frontend_client, task_id);
\* if (ret != 0) { fprintf(stderr, ...); goto bail; }
InvokeTask ==
    /\ pc = "invoke_task"
    /\ \E r \in teaclave_invoke_task(frontend_client, task_id) :
         /\ ret' = r.ret
         /\ tasks' = r.tasks
         /\ calls' = Append(calls, Call("invoke_task", frontend_client,
                                        task_id, 0, r.res, << >>))
         /\ err' = IF r.ret # 0 THEN Append(err, FailedInvoke) ELSE err
         /\ pc' = IF r.ret # 0 THEN "bail" ELSE "get_task_result"
    /\ UNCHANGED << token, token_len, frontend_client, serialized_response,
                    serialized_response_len, function_id, serialized_request,
                    task_id, task_result, task_result_len, exit_status,
                    users, connection, credential, functions >>

\* GetTaskResult as it would be with a polling loop: a "not ready" answer
\* sends the client back to fetch again, silently (a run of identical polls
\* is logged as one call)
GetTaskResult_Polls ==
    /\ pc = "get_task_result"
    /\ \E r \in teaclave_get_task_result(frontend_client, task_id, BUFFER_SIZE) :
         LET call == Call("get_task_result", frontend_client, task_id,
                          BUFFER_SIZE, r.res, << >>)
             again == r.res = "ResultNotReady"
         IN  /\ ret' = r.ret
             /\ task_result' = IF r.ret = 0 THEN r.response ELSE task_result
             /\ task_result_len' = r.len
             /\ calls' = IF again /\ calls[Len(calls)] = call THEN calls
                         ELSE Append(calls, call)
             /\ err' = IF r.ret # 0 /\ ~again
                       THEN Append(err, FailedGetResult) ELSE err
             /\ pc' = IF again THEN "get_task_result"
                      ELSE IF r.ret # 0 THEN "bail" ELSE "close"
    /\ UNCHANGED << token, token_len, frontend_client, serialized_response,
                    serialized_response_len, function_id, serialized_request,
                    task_id, exit_status, platform_vars >>

\* size_t task_result_len = BUFFER_SIZE;
\* ret = teaclave_get_task_result(frontend_client, task_id, task_result,
\*                                &task_result_len);
\* if (ret != 0) { fprintf(stderr, ...); goto bail; }
GetTaskResult ==
    /\ pc = "get_task_result"
    /\ \E r \in teaclave_get_task_result(frontend_client, task_id, BUFFER_SIZE) :
         /\ ret' = r.ret
         /\ task_result' = IF r.ret = 0 THEN r.response ELSE task_result
         /\ task_result_len' = r.len
         /\ calls' = Append(calls, Call("get_task_result", frontend_client,
                                        task_id, BUFFER_SIZE, r.res, << >>))
         /\ err' = IF r.ret # 0 THEN Append(err, FailedGetResult) ELSE err
         /\ pc' = IF r.ret # 0 THEN "bail" ELSE "close"
    /\ UNCHANGED << token, token_len, frontend_client, serialized_response,
                    serialized_response_len, function_id, serialized_request,
                    task_id, exit_status, platform_vars >>

\* Close as it would be if the success path returned without releasing the
\* connection
Close_NoRelease ==
    /\ pc = "close"
    /\ pc' = "returned"
    /\ exit_status' = << ret >>
    /\ UNCHANGED << ret, token, token_len, frontend_client, serialized_response,
                    serialized_response_len, function_id, serialized_request,
                    task_id, task_result, task_result_len, err, calls,
                    platform_vars >>

\* Close as it would be without its return statement: control falls through
\* into the bail label
Close_FallThrough ==
    /\ pc = "close"
    /\ \E r \in teaclave_close_frontend_service(frontend_client) :
         /\ ret' = r.ret
         /\ connection' = r.connection
         /\ calls' = Append(calls, Call("close", frontend_client, << >>, 0,
                                        r.res, << >>))
         /\ err' = IF r.ret # 0 THEN Append(err, FailedClose) ELSE err
         /\ pc' = "bail"
    /\ UNCHANGED << token, token_len, frontend_client, serialized_response,
                    serialized_response_len, function_id, serialized_request,
                    task_id, task_result, task_result_len, exit_status,
                    users, credential, functions, tasks >>

\* Close as it would be if a failed release ended the process with exit(-1)
Close_FailureFatal ==
    /\ pc = "close"
    /\ \E r \in teaclave_close_frontend_service(frontend_client) :
         /\ ret' = r.ret
         /\ connection' = r.connection
         /\ calls' = Append(calls, Call("close", frontend_client, << >>, 0,
                                        r.res, << >>))
         /\ err' = IF r.ret # 0 THEN Append(err, FailedClose) ELSE err
         /\ pc' = IF r.ret # 0 THEN "exited" ELSE "returned"
         /\ exit_status' = IF r.ret # 0 THEN << (-1) % 256 >> ELSE << r.ret >>
    /\ UNCHANGED << token, token_len, frontend_client, serialized_response,
                    serialized_response_len, function_id, serialized_request,
                    task_id, task_result, task_result_len,
                    users, credential, functions, tasks >>

\* ret = teaclave_close_frontend_service(frontend_client);
\* if (ret != 0) { fprintf(stderr, ...); }
\* return ret;
Close ==
    /\ pc = "close"
    /\ \E r \in teaclave_close_frontend_service(frontend_client) :
         /\ ret' = r.ret
         /\ connection' = r.connection
         /\ calls' = Append(calls, Call("close", frontend_client, << >>, 0,
                                        r.res, << >>))
         /\ err' = IF r.ret # 0 THEN Append(err, FailedClose) ELSE err
         /\ pc' = "returned"
         /\ exit_status' = << r.ret >>
    /\ UNCHANGED << token, token_len, frontend_client, serialized_response,
                    serialized_response_len, function_id, serialized_request,
                    task_id, task_result, task_result_len,
                    users, credential, functions, tasks >>

\* the values a read of frontend_client can yield: the pointer is declared
\* at the connect statement, so a goto bail taken before it reads an
\* object that was never initialised
ReadClient ==
    IF frontend_client = Indeterminate THEN {NULL, Garbage} ELSE {frontend_client}

\* Bail as it would be if the failure exit skipped the release
Bail_NoRelease ==
    /\ pc = "bail"
    /\ pc' = "exited"
    /\ exit_status' = << (-1) % 256 >>
    /\ UNCHANGED << ret, token, token_len, frontend_client, serialized_response,
                    serialized_response_len, function_id, serialized_request,
                    task_id, task_result, task_result_len, err, calls,
                    platform_vars >>

\* Bail as it would be if the failure exit ended with exit(ret), ret being
\* what the release returned
Bail_ExitRet ==
    /\ pc = "bail"
    /\ \E client \in ReadClient :
       \E r \in teaclave_close_frontend_service(client) :
         /\ connection' = r.connection
         /\ calls' = Append(calls, Call("close", client, << >>, 0, r.res,
                                        << >>))
         /\ ret' = IF r.res = "Crash" THEN ret ELSE r.ret
         /\ err' = IF r.res # "Crash" /\ r.ret # 0
                   THEN Append(err, FailedClose) ELSE err
         /\ pc' = IF r.res = "Crash" THEN "crashed" ELSE "exited"
         /\ exit_status' = IF r.res = "Crash" THEN << 128 + 11 >>
                           ELSE << r.ret % 256 >>
    /\ UNCHANGED << token, token_len, frontend_client, serialized_response,
                    serialized_response_len, function_id, serialized_request,
                    task_id, task_result, task_result_len,
                    users, credential, functions, tasks >>

\* bail:
\* ret = teaclave_close_frontend_service(frontend_client);
\* if (ret != 0) { fprintf(stderr, ...); }
\* exit(-1);
\* A crash inside the close call ends the process by a signal (SIGSEGV,
\* reported as status 128 + 11).
Bail ==
    /\ pc = "bail"
    /\ \E client \in ReadClient :
       \E r \in teaclave_close_frontend_service(client) :
         /\ connection' = r.connection
         /\ calls' = Append(calls, Call("close", client, << >>, 0, r.res,
                                        << >>))
         /\ ret' = IF r.res = "Crash" THEN ret ELSE r.ret
         /\ err' = IF r.res # "Crash" /\ r.ret # 0
                   THEN Append(err, FailedClose) ELSE err
         /\ pc' = IF r.res = "Crash" THEN "crashed" ELSE "exited"
         /\ exit_status' = IF r.res = "Crash" THEN << 128 + 11 >>
                           ELSE << (-1) % 256 >>
    /\ UNCHANGED << token, token_len, frontend_client, serialized_response,
                    serialized_response_len, function_id, serialized_request,
                    task_id, task_result, task_result_len,
                    users, credential, functions, tasks >>

Next ==
    \/ LoginAdmin
    \/ UserRegister
    \/ LoginUser
    \/ Connect
    \/ SetCredential
    \/ RegisterFunction
    \/ CreateTask
    \/ InvokeTask
    \/ GetTaskResult
    \/ Close
    \/ Bail
    \/ TaskCompletes

Spec == Init /\ [][Next]_vars

\* a step of main: every statement of the client is a blocking call
ClientStep ==
    \/ LoginAdmin
    \/ UserRegister
    \/ LoginUser
    \/ Connect
    \/ SetCredential
    \/ RegisterFunction
    \/ CreateTask
    \/ InvokeTask
    \/ GetTaskResult
    \/ Close
    \/ Bail

\* the client under the assumption that every platform call it issues
\* eventually returns: main, a sequential program, always takes its next
\* step (a step of main always moves pc).  Nothing is assumed about when the
\* platform finishes a task.
FairSpec == Spec /\ WF_pc(ClientStep)

\* ---------------------------------------------------------------- helpers

Terminated == pc \in {"returned", "exited", "crashed"}


NCalls == Len(calls)

\* the operations issued so far, in order
Ops == [i \in 1..NCalls |-> calls[i].op]

\* the platform calls of a complete run, in order
FullSequence ==
    << "login", "user_register", "login", "connect", "set_credential",
       "register_function", "create_task", "invoke_task", "get_task_result",
       "close" >>

\* ------------------------------------------------------------------ claims

\* C1: on every exit path of main (return, exit after a failed login,
\* connect, set_credential, register_function, create_task, invoke_task or
\* get_task_result, or a crash inside the release itself) the last platform
\* call issued before the process ends is teaclave_close_frontend_service.
C1_CloseOnEveryExit ==
    Terminated => (NCalls > 0 /\ calls[NCalls].op = "close")

\* C1 witness: the run in which login(admin) fails has ended, and its only
\* other call is the close issued at bail.
C1_Witness ==
    /\ pc = "exited"
    /\ NCalls = 2
    /\ calls[1].op = "login" /\ calls[1].res = "AuthError"
    /\ calls[2].op = "close"

\* C2: when every platform call succeeds, main issues login(admin),
\* user_register(new user), login(new user), connect, set_credential,
\* register_function, create_task, invoke_task, get_task_result, close, each
\* once and in this order, and returns status 0.
C2_FullSequenceOnSuccess ==
    (Terminated /\ \A i \in 1..NCalls : calls[i].res = "Ok") =>
        /\ Ops = FullSequence
        /\ calls[1].arg = admin_user_id
        /\ calls[2].arg[1] = admin_user_id /\ calls[2].arg[3] = user_id
        /\ calls[3].arg = user_id
        /\ pc = "returned"
        /\ exit_status = << 0 >>

\* C2 witness: a run has returned after ten successful calls.
C2_Witness ==
    /\ pc = "returned"
    /\ NCalls = 10
    /\ \A i \in 1..NCalls : calls[i].res = "Ok"

Privileged ==
    {"register_function", "create_task", "invoke_task", "get_task_result"}

\* C3: every register_function, create_task, invoke_task and get_task_result
\* call is preceded, in the same run, by a set_credential call on the same
\* connection handle that returned success.
C3_CredentialBeforePrivileged ==
    \A i \in 1..NCalls :
        calls[i].op \in Privileged =>
            \E j \in 1..(i - 1) :
                /\ calls[j].op = "set_credential"
                /\ calls[j].res = "Ok"
                /\ calls[j].client = calls[i].client

\* C3 witness: all four privileged operations have been issued.
C3_Witness ==
    \A op \in Privileged : \E i \in 1..NCalls : calls[i].op = op


\* C4: invoke_task is issued only for a task_id that a successful
\* create_task returned, at most once per task_id, and get_task_result only
\* for a task_id whose invoke_task returned success (so never a
\* get_task_result before the invoke_task, nor an invoke_task before the
\* create_task, of the same task).
C4_TaskLifecycleOrder ==
    \A i \in 1..NCalls :
        /\ calls[i].op = "invoke_task" =>
              /\ \E j \in 1..(i - 1) :
                    /\ calls[j].op = "create_task"
                    /\ calls[j].res = "Ok"
                    /\ calls[j].out = calls[i].arg
              /\ \A j \in 1..(i - 1) :
                    calls[j].op = "invoke_task" => calls[j].arg # calls[i].arg
        /\ calls[i].op = "get_task_result" =>
              \E j \in 1..(i - 1) :
                    /\ calls[j].op = "invoke_task"
                    /\ calls[j].res = "Ok"
                    /\ calls[j].arg = calls[i].arg

\* C5: an "already exists" outcome of user_register is followed by
\* login(new user), and a run in which it is the only call that did not
\* succeed completes like a fully successful one: the full call sequence,
\* a normal return, status 0.
C5_AlreadyExistsTolerated ==
    /\ \A i \in 1..NCalls :
          (calls[i].op = "user_register" /\ calls[i].res = "AlreadyExists") =>
              IF i = NCalls THEN pc = "login_user"
              ELSE calls[i + 1].op = "login" /\ calls[i + 1].arg = user_id
    /\ ( /\ Terminated
         /\ \E i \in 1..NCalls : calls[i].res = "AlreadyExists"
         /\ \A i \in 1..NCalls : calls[i].res \in {"Ok", "AlreadyExists"} ) =>
            /\ Ops = FullSequence
            /\ pc = "returned"
            /\ exit_status = << 0 >>

\* C5 witness: a run whose user_register reported "already exists" has
\* returned with status 0.
C5_Witness ==
    /\ pc = "returned"
    /\ exit_status = << 0 >>
    /\ NCalls = 10
    /\ calls[2].op = "user_register" /\ calls[2].res = "AlreadyExists"

\* C6: apart from "already exists" on user registration, every error a
\* platform call returns ends the workflow with failure: after it the
\* client is on its way out, the only call it still issues is close, and the
\* exit status is not 0.
C6_OnlyAlreadyExistsTolerated ==
    \A i \in 1..NCalls :
        calls[i].res \notin {"Ok", "AlreadyExists"} =>
            /\ pc \in {"bail", "returned", "exited", "crashed"}
            /\ \A j \in (i + 1)..NCalls : calls[j].op = "close"
            /\ Terminated => exit_status # << 0 >>

\* the errors the specification's policy treats as unrecoverable: all but
\* "already exists" (tolerated) and "result not ready" (transient)
Unrecoverable(res) == res \notin {"Ok", "AlreadyExists", "ResultNotReady"}

\* C7: after the first unrecoverable failure of a platform call the only
\* further platform call is a single close: no later protocol step is
\* issued and no call is retried.
C7_OnlyCloseAfterFailure ==
    \A i \in 1..NCalls :
        ( /\ Unrecoverable(calls[i].res)
          /\ \A k \in 1..(i - 1) : ~Unrecoverable(calls[k].res) ) =>
            /\ NCalls <= i + 1
            /\ NCalls = i + 1 =>
                  (calls[i + 1].op = "close" /\ calls[i].op # "close")
            /\ pc \notin {"user_register", "login_user", "connect",
                          "set_credential", "register_function",
                          "create_task", "invoke_task", "get_task_result"}

\* the diagnostic main prints when a call that it treats as fatal fails
Diagnostic(op) ==
    CASE op = "login" -> FailedLogin
      [] op = "connect" -> FailedConnect
      [] op = "set_credential" -> FailedSetCredential
      [] op = "register_function" -> FailedRegisterFunction
      [] op = "create_task" -> FailedCreateTask
      [] op = "invoke_task" -> FailedInvoke
      [] op = "get_task_result" -> FailedGetResult

\* the i-th call failed and sent main to the bail label
FailedFatally(i) ==
    calls[i].res # "Ok" /\ calls[i].op \notin {"user_register", "close"}

\* C8: on every failure path (a run that ended through the bail label) the
\* release does not mask the original error: whatever close returned, the
\* exit status is not 0, and the diagnostic of the failed call was written
\* before any diagnostic of the close.
C8_ReleaseDoesNotMask ==
    \A i \in 1..NCalls :
        (Terminated /\ FailedFatally(i)) =>
            /\ exit_status # << >>
            /\ exit_status # << 0 >>
            /\ \E k \in 1..Len(err) :
                  /\ err[k] = Diagnostic(calls[i].op)
                  /\ \A m \in 1..Len(err) : err[m] = FailedClose => k < m

\* C8 witness: a failure path on which close returned success and ret was
\* overwritten with 0 has ended.
C8_Witness ==
    /\ pc = "exited"
    /\ ret = 0
    /\ \E i \in 1..NCalls : FailedFatally(i)
    /\ calls[NCalls].op = "close" /\ calls[NCalls].res = "Ok"

\* C9: a get_task_result that reports "not ready" is followed by another
\* get_task_result for the same task_id before the client ends, and one
\* that reports "task failed" is followed by nothing but the close.
C9_NotReadyRetried ==
    \A i \in 1..NCalls :
        calls[i].op = "get_task_result" =>
            /\ (calls[i].res = "ResultNotReady" /\ Terminated) =>
                  \E j \in (i + 1)..NCalls :
                      /\ calls[j].op = "get_task_result"
                      /\ calls[j].arg = calls[i].arg
            /\ calls[i].res = "TaskError" =>
                  \A j \in (i + 1)..NCalls : calls[j].op = "close"

\* whether a payload holds the string s
Contains(payload, s) == \E k \in 1..Len(payload) : payload[k] = s

\* C10: against the echo platform, once get_task_result has returned
\* success the payload in task_result contains "Hello, Teaclave!", the task
\* it was fetched for is FINISHED and runs the function registered with
\* argument spec {key "message", default "", allow_overwrite true}; and
\* task_result holds a payload only after such a successful fetch.
C10_EchoRoundTrip ==
    /\ \A i \in 1..NCalls :
          (calls[i].op = "get_task_result" /\ calls[i].res = "Ok") =>
              /\ Contains(task_result, "Hello, Teaclave!")
              /\ calls[i].arg \in DOMAIN tasks
              /\ tasks[calls[i].arg].state = "FINISHED"
              /\ functions[tasks[calls[i].arg].function_id] =
                    [key |-> "message", default_value |-> "",
                     allow_overwrite |-> TRUE]
    /\ task_result # << >> =>
          \E i \in 1..NCalls :
              calls[i].op = "get_task_result" /\ calls[i].res = "Ok"

\* C10 witness: the client holds the payload of its finished echo task.
C10_Witness ==
    /\ pc \in {"close", "returned"}
    /\ Contains(task_result, "Hello, Teaclave!")
    /\ \E i \in 1..NCalls :
          calls[i].op = "get_task_result" /\ calls[i].res = "Ok"


\* C11: teaclave_close_frontend_service is only ever called with the handle
\* that an earlier teaclave_connect_frontend_service of the same run
\* returned non-null: never with a null handle, never with a pointer that
\* was not assigned.
C11_CloseOnlyConnectedHandle ==
    \A i \in 1..NCalls :
        calls[i].op = "close" =>
            /\ calls[i].client \notin {NULL, Garbage, Indeterminate}
            /\ \E j \in 1..(i - 1) :
                  /\ calls[j].op = "connect"
                  /\ calls[j].res = "Ok"
                  /\ calls[j].out = calls[i].client

\* C12: the identifier the client extracts from a well-formed response is
\* the value of the identifier field, whatever its length: function_id is
\* the id register_function returned and is what the create_task request
\* carries, task_id is the id create_task returned and is what invoke_task
\* and get_task_result are called with.
C12_ExtractedIdIsFieldValue ==
    \A i \in 1..NCalls :
        /\ (calls[i].op = "register_function" /\ calls[i].res = "Ok") =>
              /\ function_id = calls[i].out
              /\ \A j \in (i + 1)..NCalls :
                    calls[j].op = "create_task" =>
                        calls[j].arg = Expand(create_task_request_serialized,
                                              calls[i].out)
        /\ (calls[i].op = "create_task" /\ calls[i].res = "Ok") =>
              /\ task_id = calls[i].out
              /\ \A j \in (i + 1)..NCalls :
                    calls[j].op \in {"invoke_task", "get_task_result"} =>
                        calls[j].arg = calls[i].out

\* the calls that take an in/out length argument
LengthCalls == {"login", "register_function", "create_task", "get_task_result"}

\* C13: every call that takes an in/out length is entered with the length
\* equal to the capacity of its output buffer, BUFFER_SIZE; in particular
\* create_task, not with the length register_function left behind.
C13_LengthIsCapacityOnEntry ==
    \A i \in 1..NCalls :
        calls[i].op \in LengthCalls => calls[i].len = BUFFER_SIZE


\* the successful logins of user uid among the first n calls
Logins(uid, n) ==
    { j \in 1..n :
        calls[j].op = "login" /\ calls[j].arg = uid /\ calls[j].res = "Ok" }

\* C14: set_credential is called at most once, with the ordinary user's id
\* and the token a successful login of that user returned earlier; the token
\* the administrator's login returned is what user_register is called with
\* and is never the token bound to the connection.
C14_CredentialIsUsersToken ==
    /\ Cardinality({ i \in 1..NCalls : calls[i].op = "set_credential" }) <= 1
    /\ \A i \in 1..NCalls :
          calls[i].op = "set_credential" =>
              /\ calls[i].arg[1] = user_id
              /\ \E j \in Logins(user_id, i - 1) :
                    calls[j].out = calls[i].arg[2]
              /\ \A j \in Logins(admin_user_id, i - 1) :
                    calls[j].out # calls[i].arg[2]
    /\ \A i \in 1..NCalls :
          calls[i].op = "user_register" =>
              /\ calls[i].arg[1] = admin_user_id
              /\ \E j \in Logins(admin_user_id, i - 1) :
                    calls[j].out = calls[i].arg[2]

\* C14 witness: the credential has been bound after both logins succeeded.
C14_Witness ==
    /\ \E i \in 1..NCalls :
          calls[i].op = "set_credential" /\ calls[i].res = "Ok"
    /\ Logins(admin_user_id, NCalls) # {}
    /\ Logins(user_id, NCalls) # {}


\* C15: close is called at most once in a run and is the last operation:
\* once it has been called the process has ended and no set_credential,
\* register_function, create_task, invoke_task, get_task_result or close
\* follows it.
C15_CloseOnceAndLast ==
    \A i \in 1..NCalls :
        calls[i].op = "close" => (i = NCalls /\ Terminated)

\* C15 witness: a run that used the connection has closed it and ended.
C15_Witness ==
    /\ Terminated
    /\ calls[NCalls].op = "close"
    /\ calls[NCalls].client = Handle
    /\ \E i \in 1..NCalls : calls[i].op = "get_task_result"

\* every step up to and including get_task_result succeeded
ResultFetched ==
    \E i \in 1..NCalls :
        calls[i].op = "get_task_result" /\ calls[i].res = "Ok"

\* C16: once every step up to and including get_task_result has succeeded,
\* a failing close is reported and not escalated: the process never takes
\* the failure exit, it returns from main with the return code of close,
\* which is 0 if and only if close succeeded, and a failed close has left
\* its diagnostic as the last one.
C16_CloseFailureNotEscalated ==
    ResultFetched =>
        /\ pc \in {"close", "returned"}
        /\ pc = "returned" =>
              /\ calls[NCalls].op = "close"
              /\ exit_status = << ret >>
              /\ (exit_status = << 0 >>) <=> (calls[NCalls].res = "Ok")
              /\ calls[NCalls].res # "Ok" =>
                    (Len(err) > 0 /\ err[Len(err)] = FailedClose)

\* C16 witness: the result was fetched, close then failed, and main has
\* returned the non-zero code of close.
C16_Witness ==
    /\ ResultFetched
    /\ pc = "returned"
    /\ calls[NCalls].op = "close" /\ calls[NCalls].res = "CloseError"
    /\ exit_status = << 1 >>


\* C17: provided every platform call returns, every run of the client ends,
\* by returning from main, by exit, or by a crash inside the release,
\* whatever the calls return.
C17_Terminates == <>Terminated

\* C17 witness: a run has ended after a mix of successes and a failure, its
\* task still not finished on the platform.
C17_Witness ==
    /\ Terminated
    /\ \E i \in 1..NCalls : calls[i].res = "Ok"
    /\ \E i \in 1..NCalls : calls[i].res = "ResultNotReady"
    /\ \E tid \in DOMAIN tasks : tasks[tid].state = "RUNNING"

=============================================================================
